---- MODULE Spec2Model ----
(***************************************************************************)
(* Option handling of flake8: the Option wrapper, the OptionManager        *)
(* registry, aggregate_options and the parse_args procedure.               *)
(*                                                                         *)
(* Python strings are sequences of one-character strings, so that prefix   *)
(* tests, slices, replace and swapcase are computed and not assumed.       *)
(* The command line parsing engine (the standard library's ArgumentParser) *)
(* is not part of the repository.  It is modelled as the record of the     *)
(* registrations and defaults it is handed, and its parse as the documented *)
(* contract over that record; whether the library would refuse a           *)
(* registration it is handed is outside the repository's code.             *)
(***************************************************************************)
EXTENDS Integers, Sequences, FiniteSets, TLC

VARIABLES
    ctor,                     \* the arguments of the last Option(...) call
    obj,                      \* the Option object it built (or the raise)
    norm,                     \* the last Option.normalize call and result
    options,                  \* OptionManager.options
    config_options_dict,      \* OptionManager.config_options_dict
    extended_default_ignore,  \* OptionManager.extended_default_ignore
    extended_default_select,  \* OptionManager.extended_default_select
    current_group,            \* OptionManager._current_group
    parser,                   \* OptionManager.parser (the engine's record)
    requests,                 \* history: the add_option calls, in order
    runs,                     \* history: register_plugins and
                              \* aggregate_options calls made
    last                      \* history: the last operation, inputs, outcome

vars == <<ctor, obj, norm, options, config_options_dict,
          extended_default_ignore, extended_default_select, current_group,
          parser, requests, runs, last>>

optionVars == <<ctor, obj, norm>>

managerVars == <<options, config_options_dict, extended_default_ignore,
                 extended_default_select, current_group, parser, requests>>

(***************************************************************************)
(* Strings                                                                 *)
(***************************************************************************)

\* _ARG.NO, the singleton of "not passed arguments"
NO == <<"_ARG.NO">>

\* Python's None
None == <<"None">>

\* s.startswith(p)
StartsWith(s, p) == Len(s) >= Len(p) /\ SubSeq(s, 1, Len(p)) = p

\* s[n:]
Drop(s, n) == SubSeq(s, n + 1, Len(s))

\* s.replace(a, b) for one-character a and b
Replace(s, a, b) == [i \in 1..Len(s) |-> IF s[i] = a THEN b ELSE s[i]]

LowerChars ==
    <<"a", "b", "c", "d", "e", "f", "g", "h", "i", "j", "k", "l", "m",
      "n", "o", "p", "q", "r", "s", "t", "u", "v", "w", "x", "y", "z">>

UpperChars ==
    <<"A", "B", "C", "D", "E", "F", "G", "H", "I", "J", "K", "L", "M",
      "N", "O", "P", "Q", "R", "S", "T", "U", "V", "W", "X", "Y", "Z">>

SwapChar(c) ==
    IF \E i \in 1..Len(LowerChars) : LowerChars[i] = c
    THEN UpperChars[CHOOSE i \in 1..Len(LowerChars) : LowerChars[i] = c]
    ELSE IF \E i \in 1..Len(UpperChars) : UpperChars[i] = c
    THEN LowerChars[CHOOSE i \in 1..Len(UpperChars) : UpperChars[i] = c]
    ELSE c

\* s.swapcase()
Swapcase(s) == [i \in 1..Len(s) |-> SwapChar(s[i])]

Range(s) == {s[i] : i \in 1..Len(s)}

(***************************************************************************)
(* Values an option value can take: a str or a list of str                 *)
(***************************************************************************)

Str(s) == [kind |-> "str", s |-> s, l |-> <<>>]

List(l) == [kind |-> "list", s |-> <<>>, l |-> l]

\* None as an option value
NoneV == [kind |-> "none", s |-> <<>>, l |-> <<>>]

IsStr(v) == v.kind = "str"

IsList(v) == v.kind = "list"

RECURSIVE SplitAt(_, _, _)
\* the pieces of s between the separators, cur being the piece under way
SplitAt(s, sep, cur) ==
    IF s = <<>> THEN <<cur>>
    ELSE IF Head(s) = sep THEN <<cur>> \o SplitAt(Tail(s), sep, <<>>)
    ELSE SplitAt(Tail(s), sep, Append(cur, Head(s)))

\* utils.parse_comma_separated_list: the non-empty comma separated items
parse_comma_separated_list(s) ==
    SelectSeq(SplitAt(s, ",", <<>>), LAMBDA x : x # <<>>)

\* utils.normalize_path: a path with a separator is resolved against parent
normalize_path(p, parent) ==
    IF "/" \in Range(p) /\ ~StartsWith(p, <<"/">>)
    THEN parent \o <<"/">> \o p
    ELSE p

\* utils.normalize_paths
normalize_paths(ps, parent) ==
    [i \in 1..Len(ps) |-> normalize_path(ps[i], parent)]

(***************************************************************************)
(* Option                                                                  *)
(***************************************************************************)

\* the keyword fields of Option.__init__ that go to the engine
Fields == {"action", "default", "type", "dest", "nargs", "const",
           "choices", "help", "metavar", "required"}

TrueV == <<"True">>

FalseV == <<"False">>

\* functools.partial(_flake8_normalize, ...)
PartialNormalize(csl, np) ==
    <<"partial(_flake8_normalize)",
      IF csl THEN "comma_separated_list=True" ELSE "comma_separated_list=False",
      IF np THEN "normalize_paths=True" ELSE "normalize_paths=False">>

\* Option.__init__.  a is the call: [short_option_name, long_option_name,
\* kw (every field of Fields, NO when not passed), parse_from_config,
\* comma_separated_list, normalize_paths].
Option(a) ==
    LET swap == a.long_option_name = NO
                \/ (a.short_option_name # NO
                    /\ StartsWith(a.short_option_name, <<"-", "-">>))
        short == IF swap THEN NO ELSE a.short_option_name
        long == IF swap THEN a.short_option_name ELSE a.long_option_name
        type == IF a.comma_separated_list /\ a.normalize_paths
                THEN PartialNormalize(a.normalize_paths, a.comma_separated_list)
                ELSE a.kw["type"]
        self_action == a.kw["default"]
        self_default == a.kw["action"]
        self_type == a.kw["const"]
        self_dest == type
        self_nargs == a.kw["dest"]
        self_const == a.kw["nargs"]
        self_choices == a.kw["metavar"]
        self_help == a.kw["choices"]
        self_metavar == a.kw["help"]
        self_required == IF a.kw["required"] = NO THEN TrueV
                         ELSE a.kw["required"]
        raises == ~a.parse_from_config /\ long = NO
    IN  [raised |-> IF raises THEN "ValueError" ELSE "none",
         short_option_name |-> long,
         long_option_name |-> short,
         option_args |-> SelectSeq(<<short, long>>, LAMBDA x : x = NO),
         action |-> self_action,
         default |-> self_default,
         type |-> self_type,
         dest |-> self_dest,
         nargs |-> self_nargs,
         const |-> self_const,
         choices |-> self_choices,
         help |-> self_help,
         metavar |-> self_metavar,
         required |-> self_required,
         option_kwargs |->
             [f \in Fields |->
                 CASE f = "action" -> self_type
                   [] f = "default" -> self_dest
                   [] f = "type" -> self_nargs
                   [] f = "dest" -> self_const
                   [] f = "nargs" -> self_choices
                   [] f = "const" -> self_help
                   [] f = "choices" -> self_metavar
                   [] f = "help" -> self_default
                   [] f = "metavar" -> self_action
                   [] f = "required" -> self_required],
         parse_from_config |-> ~a.parse_from_config,
         comma_separated_list |-> a.normalize_paths,
         normalize_paths |-> a.comma_separated_list,
         config_name |-> IF a.parse_from_config \/ raises THEN None
                         ELSE Drop(long, 2)]

\* Option.filtered_option_kwargs
filtered_option_kwargs(self) ==
    LET set == {f \in Fields : self.option_kwargs[f] # NO}
    IN  [f \in set |-> self.option_kwargs[f]]

\* Option.to_argparse
to_argparse(self) ==
    [args |-> self.option_args, kwargs |-> filtered_option_kwargs(self)]

\* Option.normalize
normalize(self, value, parent) ==
    LET v1 == IF self.comma_separated_list /\ IsStr(value)
              THEN List(parse_comma_separated_list(value.s))
              ELSE value
    IN  IF self.normalize_paths
        THEN IF IsList(v1) THEN List(normalize_paths(v1.l, parent))
             ELSE Str(normalize_path(v1.s, parent))
        ELSE v1

(***************************************************************************)
(* The engine: what the ArgumentParser of OptionManager is handed          *)
(***************************************************************************)

\* the destination of the positional "filenames" argument
FILENAMES == <<"f", "i", "l", "e", "n", "a", "m", "e", "s">>

\* the Namespace attribute extended_default_ignore
EXTENDED_DEFAULT_IGNORE ==
    <<"e", "x", "t", "e", "n", "d", "e", "d", "_", "d", "e", "f", "a", "u",
      "l", "t", "_", "i", "g", "n", "o", "r", "e">>

\* the Namespace attribute extended_default_select
EXTENDED_DEFAULT_SELECT ==
    <<"e", "x", "t", "e", "n", "d", "e", "d", "_", "d", "e", "f", "a", "u",
      "l", "t", "_", "s", "e", "l", "e", "c", "t">>

\* _current_group = None
NoGroup == 0

\* the parser OptionManager.__init__ builds: no option registered, no group,
\* no default set; "filenames" takes the positional arguments
NewParser == [registrations |-> <<>>, groups |-> <<>>, defaults |-> <<>>]

\* a function as a dict: d[k] = v
Put(d, k, v) == [x \in DOMAIN d \cup {k} |-> IF x = k THEN v ELSE d[x]]

\* group.add_argument(*args, **kwargs) / parser.add_argument(*args, **kwargs)
add_argument(p, group, args, kwargs) ==
    [p EXCEPT !.registrations =
        Append(@, [group |-> group, args |-> args, kwargs |-> kwargs])]

\* parser.add_argument_group(name): the new group is the last one
add_argument_group(p, name) == [p EXCEPT !.groups = Append(@, name)]

\* the option strings of a registration
EFlags(e) == {e.args[i] : i \in {j \in 1..Len(e.args) : e.args[j] # NO}}

\* the destination of a registration: dest=, else the first long option
\* string without its prefix, else the first short one, "-" made "_"
EDest(e) ==
    LET longs == SelectSeq(e.args,
                     LAMBDA x : x # NO /\ StartsWith(x, <<"-", "-">>))
        shorts == SelectSeq(e.args, LAMBDA x : x # NO)
    IN  IF "dest" \in DOMAIN e.kwargs THEN e.kwargs["dest"]
        ELSE IF longs # <<>> THEN Replace(Drop(longs[1], 2), "-", "_")
        ELSE IF shorts # <<>> THEN Replace(Drop(shorts[1], 1), "-", "_")
        ELSE None

\* the default of a registration
EDefault(e) ==
    IF "default" \in DOMAIN e.kwargs THEN Str(e.kwargs["default"]) ELSE NoneV

\* a registration that must be given on the command line
ERequired(e) ==
    "required" \in DOMAIN e.kwargs /\ e.kwargs["required"] = TrueV

\* the positional tokens of an argument vector
Positionals(args) == SelectSeq(args, LAMBDA t : t.flag = NO)

\* parser.parse_args(args): a usage error (SystemExit) when a flag is not
\* registered or a required registration is not given; else the Namespace:
\* the value given on the command line, else the default set by
\* set_defaults, else the registration's own default
engine_parse_args(p, args) ==
    LET regs == p.registrations
        idx == 1..Len(regs)
        given(i) == \E k \in 1..Len(args) : args[k].flag \in EFlags(regs[i])
        unknown == \E k \in 1..Len(args) :
                      /\ args[k].flag # NO
                      /\ \A i \in idx : args[k].flag \notin EFlags(regs[i])
        missing == \E i \in idx : ERequired(regs[i]) /\ ~given(i)
        dests == {EDest(regs[i]) : i \in idx} \ {None}
        names == dests \cup DOMAIN p.defaults \cup {FILENAMES}
        cli(d) == {k \in 1..Len(args) :
                      \E i \in idx : /\ EDest(regs[i]) = d
                                     /\ args[k].flag \in EFlags(regs[i])}
        first(d) == CHOOSE i \in idx :
                      /\ EDest(regs[i]) = d
                      /\ \A j \in idx : EDest(regs[j]) = d => i <= j
        max(S) == CHOOSE k \in S : \A j \in S : j <= k
        pos == Positionals(args)
        value(d) ==
            IF d = FILENAMES /\ pos # <<>>
            THEN List([k \in 1..Len(pos) |-> pos[k].value])
            ELSE IF cli(d) # {} THEN Str(args[max(cli(d))].value)
            ELSE IF d \in DOMAIN p.defaults THEN p.defaults[d]
            ELSE IF d \in dests THEN EDefault(regs[first(d)])
            ELSE List(<<>>)
    IN  IF unknown \/ missing
        THEN [err |-> "SystemExit", ns |-> <<>>]
        ELSE [err |-> "none", ns |-> [d \in names |-> value(d)]]

\* parser.set_defaults(**vars(values))
set_defaults(p, values) ==
    [p EXCEPT !.defaults =
        [d \in DOMAIN p.defaults \cup DOMAIN values |->
            IF d \in DOMAIN values THEN values[d] ELSE p.defaults[d]]]

(***************************************************************************)
(* OptionManager                                                           *)
(***************************************************************************)

\* the manager as one value
Manager ==
    [options |-> options,
     config_options_dict |-> config_options_dict,
     extended_default_ignore |-> extended_default_ignore,
     extended_default_select |-> extended_default_select,
     current_group |-> current_group,
     parser |-> parser,
     requests |-> requests]

\* OptionManager.__init__
NewManager ==
    [options |-> <<>>,
     config_options_dict |-> <<>>,
     extended_default_ignore |-> <<>>,
     extended_default_select |-> <<>>,
     current_group |-> NoGroup,
     parser |-> NewParser,
     requests |-> <<>>]

\* OptionManager.add_option(*args, **kwargs): [mgr, err]
add_option(m, a) ==
    LET option == Option(a)
        call == to_argparse(option)
        name == option.config_name
        indexed ==
            IF option.parse_from_config
            THEN Put(Put(m.config_options_dict, name, option),
                     Replace(name, "_", "-"), option)
            ELSE m.config_options_dict
    IN  IF option.raised # "none"
        THEN [mgr |-> [m EXCEPT !.requests =
                          Append(@, [a |-> a, err |-> option.raised,
                                     group |-> m.current_group])],
              err |-> option.raised]
        ELSE [mgr |-> [m EXCEPT
                  !.parser = add_argument(@, m.current_group,
                                          call.args, call.kwargs),
                  !.options = Append(@, option),
                  !.config_options_dict = indexed,
                  !.requests = Append(@, [a |-> a, err |-> "none",
                                          group |-> m.current_group])],
              err |-> "none"]

\* OptionManager.extend_default_ignore
extend_default_ignore(m, error_codes) ==
    [m EXCEPT !.extended_default_ignore = @ \o error_codes]

\* OptionManager.extend_default_select
extend_default_select(m, error_codes) ==
    [m EXCEPT !.extended_default_select = @ \o error_codes]

RECURSIVE CallAddOptions(_, _)
\* a plugin's add_options(self) hook: the add_option calls it makes, in
\* order, the first raise ending it
CallAddOptions(m, adds) ==
    IF adds = <<>> THEN [mgr |-> m, err |-> "none"]
    ELSE LET r == add_option(m, Head(adds))
         IN  IF r.err # "none" THEN r
             ELSE CallAddOptions(r.mgr, Tail(adds))

\* _set_group(name) that looks no group up and adds one on every call
set_group_without_reuse(m, groups, name) ==
    LET p == add_argument_group(m.parser, name)
        group == Len(p.groups)
    IN  [mgr |-> [m EXCEPT !.parser = p, !.current_group = group],
         groups |-> Put(groups, name, group)]

\* _set_group(name) of register_plugins: groups is the local dict, a
\* group being its position among the parser's groups
set_group(m, groups, name) ==
    IF name \in DOMAIN groups
    THEN [mgr |-> [m EXCEPT !.current_group = groups[name]],
          groups |-> groups]
    ELSE LET p == add_argument_group(m.parser, name)
             group == Len(p.groups)
         IN  [mgr |-> [m EXCEPT !.parser = p, !.current_group = group],
              groups |-> Put(groups, name, group)]

RECURSIVE RegisterLoop(_, _, _)
\* the loop of register_plugins over plugins.all_plugins()
RegisterLoop(m, groups, plugins) ==
    IF plugins = <<>> THEN [mgr |-> m, err |-> "none"]
    ELSE LET loaded == Head(plugins)
             g == IF loaded.add_options
                  THEN set_group(m, groups, loaded.package)
                  ELSE [mgr |-> m, groups |-> groups]
             h == IF loaded.add_options
                  THEN CallAddOptions(g.mgr, loaded.adds)
                  ELSE [mgr |-> m, err |-> "none"]
             m2 == IF loaded.group = "flake8.extension"
                   THEN extend_default_select(h.mgr, <<loaded.entry_name>>)
                   ELSE h.mgr
         IN  IF h.err # "none" THEN h
             ELSE RegisterLoop(m2, g.groups, Tail(plugins))

\* the end of register_plugins: self._current_group = None, which an
\* exception from a hook does not reach
clear_group(r) ==
    IF r.err # "none" THEN r
    ELSE [mgr |-> [r.mgr EXCEPT !.current_group = NoGroup], err |-> "none"]

\* OptionManager.register_plugins: [mgr, err]
register_plugins(m, plugins) == clear_group(RegisterLoop(m, <<>>, plugins))

\* OptionManager.parse_args(args, values): [mgr, err, ns]; a Namespace is
\* always true, so values is None or sets the defaults
manager_parse_args(m, args, hasValues, values) ==
    LET p == IF hasValues THEN set_defaults(m.parser, values) ELSE m.parser
        r == engine_parse_args(p, args)
    IN  [mgr |-> [m EXCEPT !.parser = p], err |-> r.err, ns |-> r.ns]

(***************************************************************************)
(* aggregate_options                                                       *)
(***************************************************************************)

RECURSIVE ParseConfigFrom(_, _, _, _)
\* config.parse_config over the entries of the [flake8] section, in order:
\* an entry whose key is registered gives config_name -> normalized value
ParseConfigFrom(m, cfg, cfg_dir, acc) ==
    IF cfg = <<>> THEN acc
    ELSE LET e == Head(cfg)
             known == e.key \in DOMAIN m.config_options_dict
             option == m.config_options_dict[e.key]
             keys == {acc[i].key : i \in 1..Len(acc)}
             item == [key |-> option.config_name,
                      value |-> normalize(option, e.value, cfg_dir)]
         IN  IF ~known THEN ParseConfigFrom(m, Tail(cfg), cfg_dir, acc)
             ELSE IF item.key \in keys
             THEN ParseConfigFrom(m, Tail(cfg), cfg_dir,
                      [i \in 1..Len(acc) |->
                          IF acc[i].key = item.key THEN item ELSE acc[i]])
             ELSE ParseConfigFrom(m, Tail(cfg), cfg_dir, Append(acc, item))

\* config.parse_config(manager, cfg, cfg_dir): the dict, in insertion order
parse_config(m, cfg, cfg_dir) == ParseConfigFrom(m, cfg, cfg_dir, <<>>)

RECURSIVE MergeConfig(_, _)
\* the merge loop of aggregate_options over parsed_config.items()
MergeConfig(default_values, parsed_config) ==
    IF parsed_config = <<>> THEN default_values
    ELSE LET config_name == Head(parsed_config).key
             value == Head(parsed_config).value
             dest_name == IF config_name \in DOMAIN default_values
                          THEN Swapcase(config_name)
                          ELSE config_name
         IN  MergeConfig(Put(default_values, dest_name, value),
                         Tail(parsed_config))

\* aggregate_options(manager, cfg, cfg_dir, argv): [mgr, err, ns].
\* sys_argv is sys.argv[1:], which the engine parses when handed None.
aggregate_options(m, cfg, cfg_dir, argv, sys_argv) ==
    LET first == manager_parse_args(m, argv, FALSE, <<>>)
        parsed_config == parse_config(m, cfg, cfg_dir)
        d1 == Put(first.ns, EXTENDED_DEFAULT_IGNORE,
                  List(m.extended_default_select))
        d2 == Put(d1, EXTENDED_DEFAULT_SELECT,
                  List(m.extended_default_ignore))
        default_values == MergeConfig(d2, parsed_config)
    IN  IF first.err # "none" THEN first
        ELSE manager_parse_args(m, sys_argv, TRUE, default_values)

(***************************************************************************)
(* parse_args, the procedure for parsing args, config, loading plugins     *)
(***************************************************************************)

OUTPUT_FILE == <<"-", "-", "o", "u", "t", "p", "u", "t", "-", "f", "i", "l", "e">>

\* options.stage1_arg_parser(): the preliminary parser, here its
\* --output-file flag, the one parse_args reads back
stage1_arg_parser ==
    add_argument(NewParser, NoGroup, <<OUTPUT_FILE>>, <<>>)

\* prelim_parser.parse_known_args(argv): [output_file, rest]
parse_known_args(argv) ==
    LET outs == SelectSeq(argv, LAMBDA t : t.flag = OUTPUT_FILE)
    IN  [output_file |-> IF outs = <<>> THEN None
                         ELSE outs[Len(outs)].value,
         rest |-> SelectSeq(argv, LAMBDA t : t.flag # OUTPUT_FILE)]

RECURSIVE CallParseOptions(_, _, _)
\* the loop of parse_args over plugins.all_plugins(): [calls, err].  A
\* plugin's parse_options is "none" (no hook), "new" (it takes manager,
\* options, filenames), "old" (it rejects that call with TypeError and
\* takes one argument) or "fails" (it raises another exception).
CallParseOptions(plugins, opts, calls) ==
    IF plugins = <<>> THEN [calls |-> calls, err |-> "none"]
    ELSE LET loaded == Head(plugins)
             filenames == opts[FILENAMES].l
             reversed == [i \in 1..Len(filenames) |->
                             filenames[Len(filenames) + 1 - i]]
             three == [plugin |-> loaded.entry_name,
                       args |-> <<"option_manager", "opts", "filenames">>,
                       filenames |-> reversed]
             one == [plugin |-> loaded.entry_name,
                     args |-> <<"argv">>,
                     filenames |-> <<>>]
         IN  CASE loaded.parse_options = "none" ->
                    CallParseOptions(Tail(plugins), opts, calls)
               [] loaded.parse_options = "new" ->
                    CallParseOptions(Tail(plugins), opts,
                                     Append(calls, three))
               [] loaded.parse_options = "old" ->
                    CallParseOptions(Tail(plugins), opts,
                                     calls \o <<three, one>>)
               [] OTHER ->
                    [calls |-> Append(calls, three), err |-> "ValueError"]

RECURSIVE RegisterDefaults(_, _)
\* options.register_default_options(option_manager): the add_option calls
\* for the built-in options
RegisterDefaults(m, builtin) ==
    IF builtin = <<>> THEN [mgr |-> m, err |-> "none"]
    ELSE LET r == add_option(m, Head(builtin))
         IN  IF r.err # "none" THEN r
             ELSE RegisterDefaults(r.mgr, Tail(builtin))

\* parse_args(argv): [err, mgr, opts, calls, ret, hooks]; hooks says that
\* the loop over the parse_options hooks was reached
main_parse_args(argv, sys_argv, cfg, cfg_dir, plugins, builtin) ==
    LET args0 == parse_known_args(argv)
        rest == IF args0.output_file # None
                THEN Append(args0.rest,
                            [flag |-> NO, value |-> args0.output_file])
                ELSE args0.rest
        option_manager == [NewManager EXCEPT !.parser = stage1_arg_parser]
        raised(x) == [err |-> x.err, mgr |-> x.mgr, opts |-> <<>>,
                      calls |-> <<>>, ret |-> <<>>, hooks |-> FALSE]
        \* the loop over the parse_options hooks and the return
        hooks(a, h) ==
            [err |-> h.err, mgr |-> a.mgr, opts |-> a.ns,
             calls |-> h.calls, hooks |-> TRUE,
             ret |-> IF h.err = "none" THEN <<"opts", "plugins">>
                     ELSE <<>>]
        \* opts = aggregate_options(option_manager, cfg, cfg_dir, rest)
        aggregated(a) ==
            IF a.err # "none" THEN raised(a)
            ELSE hooks(a, CallParseOptions(plugins, a.ns, <<>>))
        \* option_manager.register_plugins(plugins)
        registered(r) ==
            IF r.err # "none" THEN raised(r)
            ELSE aggregated(aggregate_options(r.mgr, cfg, cfg_dir, rest,
                                              sys_argv))
        \* options.register_default_options(option_manager)
        defaults(d) ==
            IF d.err # "none" THEN raised(d)
            ELSE registered(register_plugins(d.mgr, plugins))
    IN  defaults(RegisterDefaults(option_manager, builtin))

(***************************************************************************)
(* Bounds and inputs                                                       *)
(***************************************************************************)

\* add_option calls made on one manager
MaxOptions == 2

\* codes an extended default list holds after an extend_default_* call
MaxCodes == 2

\* plugins handed to one register_plugins call
MaxPlugins == 2

\* aggregate_options calls made on one manager
MaxRuns == 2

ShortA == <<"-", "a">>

LongAB == <<"-", "-", "a", "-", "b">>

LongCD == <<"-", "-", "c", "_", "d">>

\* a value passed for each keyword field
Passed ==
    [action |-> <<"store">>, default |-> <<"D">>, type |-> <<"int">>,
     dest |-> <<"t", "o">>, nargs |-> <<"?">>, const |-> <<"K">>,
     choices |-> <<"A|B">>, help |-> <<"text">>, metavar |-> <<"M">>,
     required |-> FalseV]

\* the keywords of a call that passes exactly the fields of S
Kw(S) == [f \in Fields |-> IF f \in S THEN Passed[f] ELSE NO]

Call(short, long, S, pfc, csl, np) ==
    [short_option_name |-> short, long_option_name |-> long, kw |-> Kw(S),
     parse_from_config |-> pfc, comma_separated_list |-> csl,
     normalize_paths |-> np]

\* the Option(...) calls tried on the constructor alone: one name or two
CtorCalls ==
    {Call(n[1], n[2], S, pfc, csl, np) :
        n \in {<<ShortA, NO>>, <<LongAB, NO>>, <<NO, LongAB>>,
               <<ShortA, LongAB>>},
        S \in {{}, Fields} \cup {{f} : f \in Fields},
        pfc \in BOOLEAN, csl \in BOOLEAN, np \in BOOLEAN}

OptAB == Call(LongAB, NO, {"default", "required"}, TRUE, FALSE, FALSE)

OptCD == Call(LongCD, NO, {"default", "required"}, FALSE, FALSE, FALSE)

OptABRequired == Call(LongAB, NO, {"default"}, TRUE, FALSE, FALSE)

OptNone == Call(NO, NO, {}, FALSE, FALSE, FALSE)

\* the add_option calls tried on a manager
RegistryCalls == {OptAB, OptCD, OptABRequired, OptNone}

Dir == <<"/", "r">>

\* the values handed to Option.normalize
NormValues ==
    {Str(<<"a">>), Str(<<"a", ",", "b">>), Str(<<"x", "/", "y">>),
     Str(<<"x", "/", "y", ",", "z">>),
     List(<<<<"x", "/", "y">>, <<"z">>>>)}

\* the code lists handed to extend_default_ignore / extend_default_select
CodeLists == {<<<<"E">>>>, <<<<"W">>, <<"E">>>>}

F1 == <<"f", "1">>

F2 == <<"f", "2">>

Pos(v) == [flag |-> NO, value |-> v]

Flag(f, v) == [flag |-> f, value |-> v]

\* the argument vectors handed over as argv
Argvs ==
    {<<>>, <<Pos(F1), Pos(F2)>>, <<Flag(LongAB, <<"X">>)>>,
     <<Flag(OUTPUT_FILE, <<"o">>), Pos(F1)>>}

\* sys.argv[1:] of the process
SysArgvs == {<<>>, <<Pos(F2), Pos(F1)>>}

\* the [flake8] sections of the configuration file
Cfgs ==
    {<<>>,
     <<[key |-> <<"a", "-", "b">>, value |-> Str(<<"C">>)]>>,
     <<[key |-> <<"c", "_", "d">>, value |-> Str(<<"C">>)]>>,
     <<[key |-> <<"c", "-", "d">>, value |-> Str(<<"C", ",", "C">>)]>>}

Plugin(package, entry_name, group, add_options, adds, parse_options) ==
    [package |-> package, entry_name |-> entry_name, group |-> group,
     add_options |-> add_options, adds |-> adds,
     parse_options |-> parse_options]

\* the loaded plugins
Plugins ==
    {Plugin(<<"p">>, <<"X">>, "flake8.extension", TRUE, <<OptAB>>, "new"),
     Plugin(<<"p">>, <<"Y">>, "flake8.report", TRUE, <<OptCD>>, "old"),
     Plugin(<<"q">>, <<"Z">>, "flake8.extension", FALSE, <<>>, "none"),
     Plugin(<<"q">>, <<"W">>, "flake8.report", TRUE, <<OptNone>>, "fails")}

\* the sequences over S of length at most n
SeqsUpTo(S, n) == UNION {[1..k -> S] : k \in 0..n}

(***************************************************************************)
(* Specifications                                                          *)
(***************************************************************************)

SetManager(m) ==
    /\ options' = m.options
    /\ config_options_dict' = m.config_options_dict
    /\ extended_default_ignore' = m.extended_default_ignore
    /\ extended_default_select' = m.extended_default_select
    /\ current_group' = m.current_group
    /\ parser' = m.parser
    /\ requests' = m.requests

Init ==
    /\ ctor = <<>>
    /\ obj = <<>>
    /\ norm = <<>>
    /\ options = NewManager.options
    /\ config_options_dict = NewManager.config_options_dict
    /\ extended_default_ignore = NewManager.extended_default_ignore
    /\ extended_default_select = NewManager.extended_default_select
    /\ current_group = NewManager.current_group
    /\ parser = NewManager.parser
    /\ requests = NewManager.requests
    /\ runs = [register |-> 0, aggregate |-> 0]
    /\ last = [op |-> "init"]

\* Option(...)
Construct ==
    \E a \in CtorCalls :
        /\ ctor' = a
        /\ obj' = Option(a)
        /\ norm' = <<>>
        /\ last' = [op |-> "Option"]
        /\ UNCHANGED <<managerVars, runs>>

\* option.normalize(value, parent) on the option built last
Normalize ==
    /\ last.op \in {"Option", "normalize"}
    /\ obj.raised = "none"
    /\ \E value \in NormValues :
        /\ norm' = [value |-> value, parent |-> Dir,
                    result |-> normalize(obj, value, Dir)]
        /\ last' = [op |-> "normalize"]
        /\ UNCHANGED <<ctor, obj, managerVars, runs>>

\* manager.add_option(...)
AddOption ==
    /\ runs.aggregate = 0
    /\ Len(requests) < MaxOptions
    /\ \E a \in RegistryCalls :
        \E r \in {add_option(Manager, a)} :
            /\ SetManager(r.mgr)
            /\ last' = [op |-> "add_option", a |-> a, err |-> r.err,
                        pre |-> [options |-> options,
                                 config_options_dict |-> config_options_dict,
                                 parser |-> parser]]
            /\ UNCHANGED <<optionVars, runs>>

\* manager.extend_default_ignore(error_codes)
ExtendDefaultIgnore ==
    /\ runs.aggregate = 0
    /\ \E error_codes \in CodeLists :
        /\ Len(extended_default_ignore) + Len(error_codes) <= MaxCodes
        /\ SetManager(extend_default_ignore(Manager, error_codes))
        /\ last' = [op |-> "extend_default_ignore", codes |-> error_codes,
                    err |-> "none"]
        /\ UNCHANGED <<optionVars, runs>>

\* manager.extend_default_select(error_codes)
ExtendDefaultSelect ==
    /\ runs.aggregate = 0
    /\ \E error_codes \in CodeLists :
        /\ Len(extended_default_select) + Len(error_codes) <= MaxCodes
        /\ SetManager(extend_default_select(Manager, error_codes))
        /\ last' = [op |-> "extend_default_select", codes |-> error_codes,
                    err |-> "none"]
        /\ UNCHANGED <<optionVars, runs>>

\* manager.register_plugins(plugins), once on a manager
RegisterPlugins ==
    /\ runs.register = 0
    /\ \E plugins \in SeqsUpTo(Plugins, MaxPlugins) :
        \E r \in {register_plugins(Manager, plugins)} :
            /\ SetManager(r.mgr)
            /\ last' = [op |-> "register_plugins", plugins |-> plugins,
                        err |-> r.err,
                        pre |-> [requests |-> Len(requests),
                                 registrations |-> Len(parser.registrations),
                                 groups |-> Len(parser.groups),
                                 select |-> extended_default_select,
                                 ignore |-> extended_default_ignore]]
            /\ runs' = [runs EXCEPT !.register = 1]
            /\ UNCHANGED optionVars

\* aggregate_options(manager, cfg, cfg_dir, argv)
AggregateOptions ==
    /\ runs.aggregate < MaxRuns
    /\ \E cfg \in Cfgs, argv \in Argvs, sys_argv \in SysArgvs :
        \E r \in {aggregate_options(Manager, cfg, Dir, argv, sys_argv)} :
            /\ SetManager(r.mgr)
            /\ runs' = [runs EXCEPT !.aggregate = @ + 1]
            /\ last' = [op |-> "aggregate_options", cfg |-> cfg,
                        argv |-> argv, sys_argv |-> sys_argv,
                        err |-> r.err, ns |-> r.ns]
            /\ UNCHANGED optionVars

\* parse_args(argv) of flake8.options.parse_args, once in a process
ParseArgs ==
    /\ last.op = "init"
    /\ \E argv \in Argvs, sys_argv \in SysArgvs, cfg \in Cfgs,
          plugins \in SeqsUpTo(Plugins, MaxPlugins),
          builtin \in {<<>>, <<OptCD>>} :
        \E r \in {main_parse_args(argv, sys_argv, cfg, Dir, plugins,
                                   builtin)} :
            /\ last' = [op |-> "parse_args", argv |-> argv,
                        sys_argv |-> sys_argv, plugins |-> plugins,
                        err |-> r.err, opts |-> r.opts, calls |-> r.calls,
                        ret |-> r.ret, hooks |-> r.hooks]
            /\ SetManager(r.mgr)
            /\ UNCHANGED <<optionVars, runs>>

NextOption == Construct \/ Normalize

SpecOption == Init /\ [][NextOption]_vars

NextRegistry == AddOption \/ ExtendDefaultSelect \/ RegisterPlugins

SpecRegistry == Init /\ [][NextRegistry]_vars

Next ==
    AddOption \/ ExtendDefaultIgnore \/ ExtendDefaultSelect \/ AggregateOptions

Spec == Init /\ [][Next]_vars

NextMain == ParseArgs

SpecMain == Init /\ [][NextMain]_vars

(***************************************************************************)
(* What the claims speak of, read off the arguments of a call              *)
(***************************************************************************)

\* the option names a call gives
NamesGiven(a) ==
    {a.short_option_name, a.long_option_name} \ {NO}

\* the long option name a call gives, NO when it gives none
LongGiven(a) ==
    IF a.long_option_name # NO THEN a.long_option_name
    ELSE IF a.short_option_name # NO
            /\ StartsWith(a.short_option_name, <<"-", "-">>)
    THEN a.short_option_name
    ELSE NO

\* the long name without its "--" prefix
StrippedLong(a) == Drop(LongGiven(a), 2)

\* the destination the engine gives a call: dest=, else the long name
\* without its prefix and with "-" made "_"
DestGiven(a) ==
    IF a.kw["dest"] # NO THEN a.kw["dest"]
    ELSE Replace(StrippedLong(a), "-", "_")

\* the value normalize is to return for the flags a call requests
RequestedNormalize(a, value, parent) ==
    LET split == IF a.comma_separated_list /\ IsStr(value)
                 THEN List(parse_comma_separated_list(value.s))
                 ELSE value
    IN  IF ~a.normalize_paths THEN split
        ELSE IF IsList(split)
        THEN List([i \in 1..Len(split.l) |->
                      normalize_path(split.l[i], parent)])
        ELSE Str(normalize_path(split.s, parent))

\* the add_option calls that registered an option, in order: the i-th is
\* the call of options[i]
Registered == SelectSeq(requests, LAMBDA r : r.err = "none")

\* the entries of a configuration section under either spelling of a name
ConfigEntries(cfg, name) ==
    SelectSeq(cfg, LAMBDA e : e.key \in {Replace(name, "-", "_"),
                                         Replace(name, "_", "-")})

\* the tokens of an argument vector that give one of the names of a call
FlagTokens(argv, a) == SelectSeq(argv, LAMBDA t : t.flag \in NamesGiven(a))

RECURSIVE HookCalls(_)
\* the add_option calls the hooks of a plugin list make, each with the
\* package of its plugin
HookCalls(plugins) ==
    IF plugins = <<>> THEN <<>>
    ELSE LET loaded == Head(plugins)
             mine == IF loaded.add_options
                     THEN [i \in 1..Len(loaded.adds) |->
                              [a |-> loaded.adds[i],
                               package |-> loaded.package]]
                     ELSE <<>>
         IN  mine \o HookCalls(Tail(plugins))

RECURSIVE FirstOccurrences(_, _)
\* the elements of a sequence, each at its first occurrence only
FirstOccurrences(seq, seen) ==
    IF seq = <<>> THEN <<>>
    ELSE IF Head(seq) \in seen THEN FirstOccurrences(Tail(seq), seen)
    ELSE <<Head(seq)>> \o FirstOccurrences(Tail(seq), seen \cup {Head(seq)})

(***************************************************************************)
(* Claims                                                                  *)
(***************************************************************************)

\* C1: config over default.  After aggregate_options, every registered
\* option that was given parse_from_config and a long name, for which the
\* configuration section has an entry C under its config name and the
\* argument vector has no flag, has C (normalized as the option asks)
\* under its destination in the returned Namespace.
C1_ConfigOverDefault ==
    last.op = "aggregate_options" =>
        \A i \in 1..Len(Registered) :
            LET a == Registered[i].a
                entries == ConfigEntries(last.cfg, StrippedLong(a))
            IN  (/\ a.parse_from_config
                 /\ LongGiven(a) # NO
                 /\ entries # <<>>
                 /\ FlagTokens(last.argv, a) = <<>>)
                => /\ last.err = "none"
                   /\ DestGiven(a) \in DOMAIN last.ns
                   /\ last.ns[DestGiven(a)] =
                        RequestedNormalize(a, entries[Len(entries)].value,
                                           Dir)

\* C2: command line over config.  After aggregate_options, every registered
\* option whose flag is in argv with value X has X under its destination,
\* whatever the configuration and the default are, and the positional
\* arguments of argv are the filenames of the returned Namespace.
C2_CommandLineOverConfig ==
    last.op = "aggregate_options" =>
        /\ \A i \in 1..Len(Registered) :
            LET a == Registered[i].a
                tokens == FlagTokens(last.argv, a)
            IN  (LongGiven(a) # NO /\ tokens # <<>>)
                => /\ last.err = "none"
                   /\ DestGiven(a) \in DOMAIN last.ns
                   /\ last.ns[DestGiven(a)] = Str(tokens[Len(tokens)].value)
        /\ (/\ Positionals(last.argv) # <<>>
            /\ \A k \in 1..Len(last.argv) : last.argv[k].flag = NO)
           => /\ last.err = "none"
              /\ last.ns[FILENAMES] =
                    List([k \in 1..Len(last.argv) |-> last.argv[k].value])

\* C3: the Namespace aggregate_options returns holds the codes given to
\* extend_default_select, in call order and with duplicates, as
\* extended_default_select, and those given to extend_default_ignore as
\* extended_default_ignore.
C3_ExtendedDefaults ==
    (last.op = "aggregate_options" /\ last.err = "none") =>
        /\ last.ns[EXTENDED_DEFAULT_SELECT] = List(extended_default_select)
        /\ last.ns[EXTENDED_DEFAULT_IGNORE] = List(extended_default_ignore)

\* C4: after add_option registers an option given parse_from_config, the
\* config-key index maps the underscore and the hyphen spelling of its
\* config name to that option; an option registered without
\* parse_from_config is indexed under neither.
C4_ConfigIndex ==
    (last.op = "add_option" /\ last.err = "none" /\ LongGiven(last.a) # NO) =>
        LET option == options[Len(options)]
            name == StrippedLong(last.a)
            spellings == {Replace(name, "-", "_"), Replace(name, "_", "-")}
        IN  IF last.a.parse_from_config
            THEN \A k \in spellings :
                    /\ k \in DOMAIN config_options_dict
                    /\ config_options_dict[k] = option
            ELSE \A k \in spellings :
                    k \in DOMAIN config_options_dict
                    => k \in DOMAIN last.pre.config_options_dict

\* C5: Option(...) raises ValueError exactly when parse_from_config is
\* given and no long option name is; given parse_from_config and a long
\* name, the option has parse_from_config true and config_name the long
\* name without its "--".
C5_ConstructionError ==
    last.op \in {"Option", "normalize"} =>
        /\ obj.raised = "ValueError"
           <=> (ctor.parse_from_config /\ LongGiven(ctor) = NO)
        /\ (ctor.parse_from_config /\ LongGiven(ctor) # NO)
           => /\ obj.parse_from_config
              /\ obj.config_name = StrippedLong(ctor)

\* C6: to_argparse() returns the option names that were given and no
\* unset marker, and of the ten keyword fields exactly those that were
\* passed, each under its own name with the value passed.
C6_ToArgparse ==
    (last.op \in {"Option", "normalize"} /\ obj.raised = "none") =>
        LET r == to_argparse(obj)
        IN  /\ Range(r.args) = NamesGiven(ctor)
            /\ DOMAIN r.kwargs = {f \in Fields : ctor.kw[f] # NO}
            /\ \A f \in DOMAIN r.kwargs : r.kwargs[f] = ctor.kw[f]

\* C7: normalize splits a string on commas if and only if
\* comma_separated_list was requested and normalizes paths if and only if
\* normalize_paths was requested, the split first.
C7_Normalize ==
    last.op = "normalize" =>
        norm.result = RequestedNormalize(ctor, norm.value, norm.parent)

\* C8: when parse_args reaches the hooks, every plugin with a
\* parse_options hook is called with the manager, the Namespace and the
\* filenames as the Namespace holds them; a second call, with one
\* argument, follows only a call rejected with TypeError; another
\* exception ends the run.
C8_ParseOptionsHooks ==
    (last.op = "parse_args" /\ last.hooks) =>
        LET hooked == SelectSeq(last.plugins,
                                LAMBDA l : l.parse_options # "none")
            threes == SelectSeq(last.calls, LAMBDA c : Len(c.args) = 3)
        IN  /\ \A i \in 1..Len(threes) :
                /\ threes[i].plugin = hooked[i].entry_name
                /\ threes[i].filenames = last.opts[FILENAMES].l
            /\ \A i \in 1..Len(last.calls) :
                Len(last.calls[i].args) = 1
                => /\ i > 1
                   /\ Len(last.calls[i - 1].args) = 3
                   /\ last.calls[i - 1].plugin = last.calls[i].plugin
                   /\ \E l \in Range(last.plugins) :
                        /\ l.entry_name = last.calls[i].plugin
                        /\ l.parse_options = "old"
            /\ last.err = "none" => Len(threes) = Len(hooked)
            /\ last.err # "none"
               => hooked[Len(threes)].parse_options = "fails"

\* C9: register_plugins sets the active group to the group of a plugin's
\* package before its add_options hook runs, one group for each package,
\* so that the options a hook adds go to that group; it appends the entry
\* name of every "flake8.extension" plugin, and of no other, to the
\* default-enabled list; after it returns the active group is None.
C9_RegisterPlugins ==
    last.op = "register_plugins" =>
        LET pre == last.pre
            made == SubSeq(requests, pre.requests + 1, Len(requests))
            handed == SubSeq(parser.registrations, pre.registrations + 1,
                             Len(parser.registrations))
            expected == HookCalls(last.plugins)
            hooked == SelectSeq(last.plugins, LAMBDA l : l.add_options)
            extensions == SelectSeq(last.plugins,
                              LAMBDA l : l.group = "flake8.extension")
        IN  /\ Len(made) <= Len(expected)
            /\ \A i \in 1..Len(made) :
                /\ made[i].a = expected[i].a
                /\ made[i].group # NoGroup
                /\ parser.groups[made[i].group] = expected[i].package
            /\ \A i \in 1..Len(handed) :
                /\ handed[i].group # NoGroup
                /\ parser.groups[handed[i].group] = expected[i].package
            /\ last.err = "none" =>
                /\ Len(made) = Len(expected)
                /\ Len(handed) = Len(expected)
                /\ current_group = NoGroup
                /\ SubSeq(parser.groups, pre.groups + 1, Len(parser.groups))
                   = FirstOccurrences(
                        [i \in 1..Len(hooked) |-> hooked[i].package], {})
                /\ extended_default_select
                   = pre.select \o [i \in 1..Len(extensions) |->
                                       extensions[i].entry_name]
                /\ extended_default_ignore = pre.ignore

\* a register_plugins call on a manager with codes already enabled, whose
\* two hooks of one package each added an option, and which returned
C9_Witness ==
    /\ last.op = "register_plugins"
    /\ last.err = "none"
    /\ last.pre.select # <<>>
    /\ Len(last.plugins) = 2
    /\ last.plugins[1].package = last.plugins[2].package
    /\ last.plugins[1].add_options /\ last.plugins[2].add_options
    /\ Len(parser.registrations) = last.pre.registrations + 2
    /\ Len(extended_default_select) = Len(last.pre.select) + 1

\* C10: a single name that starts with "--" is the long option name even
\* when passed first; a single name that does not is the short option
\* name; of two names the first is the short and the second the long one.
C10_OptionNames ==
    (last.op \in {"Option", "normalize"} /\ obj.raised = "none") =>
        LET short == ctor.short_option_name
            long == ctor.long_option_name
        IN  /\ (short # NO /\ long = NO /\ StartsWith(short, <<"-", "-">>))
               => (obj.long_option_name = short
                   /\ obj.short_option_name = NO)
            /\ (short # NO /\ long = NO /\ ~StartsWith(short, <<"-", "-">>))
               => (obj.short_option_name = short
                   /\ obj.long_option_name = NO)
            /\ (short = NO /\ long # NO)
               => (obj.long_option_name = long
                   /\ obj.short_option_name = NO)
            /\ (short # NO /\ long # NO)
               => (obj.short_option_name = short
                   /\ obj.long_option_name = long)

====
